---- MODULE Spec2Model ----
(***************************************************************************)
(* Instance / physical device / logical device / queue lifecycle,          *)
(* count-then-fill enumeration and entry-point resolution of the           *)
(* rpi-vk-driver (src/driver/instance.c, src/driver/device.c).             *)
(*                                                                         *)
(* The host heap is a finite map from pointers to objects.  ALLOCATE       *)
(* either fails (returns NULL) or returns the lowest unused pointer; FREE  *)
(* of a live pointer releases it, FREE(NULL) does nothing and FREE of a    *)
(* pointer that is not live is recorded as heap corruption.  Memory that   *)
(* malloc returns is not zeroed: a field the code reads before writing it  *)
(* holds an arbitrary value, chosen when the object is allocated.          *)
(***************************************************************************)
EXTENDS Integers, Sequences, FiniteSets, TLC

VARIABLES
    heap,        \* pointer -> object (the process heap)
    controlFd,   \* the process-wide kernel driver file descriptor (0: closed)
    instances,   \* VkInstance handles the application holds
    devices,     \* VkDevice handles the application holds
    last         \* what the last API call returned and wrote

vars == <<heap, controlFd, instances, devices, last>>

----------------------------------------------------------------------------
(* Bounds of the model *)

MaxPtrs == 5          \* heap capacity, in objects
MaxExtNames == 2      \* longest ppEnabledExtensionNames list
MaxQueueCount == 2    \* largest queueCount of a VkDeviceQueueCreateInfo
MaxCap == 3           \* largest small capacity handed to an enumeration
numFeatures == 2      \* VkBool32 members of VkPhysicalDeviceFeatures (scaled down)
IntBits == 8          \* width of int and uint32_t (scaled down)

----------------------------------------------------------------------------
(* Values *)

NULL == 0
Unwritten == NULL - 1       \* an output variable of the caller the call never stored to
Ptrs == 1..MaxPtrs
NoObject == [kind |-> "free"]

\* uint32_t -> int, and int -> uint32_t, as the assignments convert.  Both types
\* are IntBits wide here (32 in the build): TwoTo31 stands for INT_MAX + 1 and
\* TwoTo32 for UINT32_MAX + 1.
TwoTo31 == 2 ^ (IntBits - 1)
TwoTo32 == 2 * TwoTo31
ToInt32(u) == IF u >= TwoTo31 THEN u - TwoTo32 ELSE u
ToUint32(i) == i % TwoTo32

\* min(a, b) on int
min(a, b) == IF a < b THEN a ELSE b

\* capacities a caller can put in *pCount: the small ones, and those around
\* the point where uint32_t no longer fits an int
Capacities == (0..MaxCap) \cup {TwoTo31 - 1, TwoTo31, TwoTo32 - 1}

SeqsUpTo(S, n) == UNION {[1..k -> S] : k \in 0..n}

----------------------------------------------------------------------------
(* The static registries *)

numQueueFamilies == 2

instanceExtensions ==
    << [extensionName |-> "VK_KHR_surface", specVersion |-> 25],
       [extensionName |-> "VK_KHR_display", specVersion |-> 23] >>
numInstanceExtensions == Len(instanceExtensions)

deviceExtensions ==
    << [extensionName |-> "VK_KHR_swapchain", specVersion |-> 70],
       [extensionName |-> "VK_KHR_maintenance1", specVersion |-> 2] >>
numDeviceExtensions == Len(deviceExtensions)

\* a name no registry holds
UnknownExtension == "VK_EXT_not_in_registry"

\* index (from 0) of the extension called name, or -1
FindExtension(table, name) ==
    IF \E i \in 1..Len(table) : table[i].extensionName = name
    THEN (CHOOSE i \in 1..Len(table) :
            /\ table[i].extensionName = name
            /\ \A j \in 1..(i - 1) : table[j].extensionName # name) - 1
    ELSE -1

findInstanceExtension(name) == FindExtension(instanceExtensions, name)
findDeviceExtension(name) == FindExtension(deviceExtensions, name)

\* _features, read as an array of numFeatures VkBool32: every third feature
\* (from the second) is one the hardware lacks
supportedFeatures == [c \in 0..(numFeatures - 1) |-> c % 3 # 1]
NoFeatures == [c \in 0..(numFeatures - 1) |-> FALSE]
FeatureSets == [0..(numFeatures - 1) -> BOOLEAN]

----------------------------------------------------------------------------
(* The heap *)

Live(h) == {p \in Ptrs : h[p].kind # "free"}

\* ALLOCATE: NULL when the allocator fails or the heap is full, else the lowest
\* unused pointer
ALLOCATE(h, ok) ==
    IF ok /\ Live(h) # Ptrs
    THEN CHOOSE p \in Ptrs \ Live(h) : \A q \in Ptrs \ Live(h) : p <= q
    ELSE NULL

\* FREE(p0); FREE(p1); ... on heap h: the heap afterwards, and whether a FREE
\* hit a pointer that was not live (a second free, or a wild pointer)
RECURSIVE FreeAll(_, _)
FreeAll(h, ps) ==
    IF ps = << >> THEN [heap |-> h, corrupt |-> FALSE]
    ELSE LET p == Head(ps)
             bad == p # NULL /\ (p \notin Ptrs \/ h[p].kind = "free")
             h1 == IF p \in Ptrs /\ ~bad THEN [h EXCEPT ![p] = NoObject] ELSE h
             rest == FreeAll(h1, Tail(ps))
         IN [heap |-> rest.heap, corrupt |-> bad \/ rest.corrupt]

\* the record every call leaves in last
Result(op, ret) ==
    [op |-> op, ret |-> ret, handle |-> Unwritten, countIn |-> 0, count |-> Unwritten,
     buffer |-> FALSE, written |-> << >>, allocated |-> << >>, freed |-> << >>,
     corrupt |-> FALSE, arg |-> NULL, name |-> "", request |-> << >>,
     queue |-> [array |-> NULL, index |-> 0]]

----------------------------------------------------------------------------
(* The kernel interface (declared in the driver's headers) *)

\* the descriptor open("/dev/dri/card0") yields
CardFd == 3

\* openIoctl(): opens the control device unless it is already open
openIoctl(fd) == IF fd = 0 THEN CardFd ELSE fd
\* closeIoctl(): closes the control device
closeIoctl(fd) == 0

\* what the vc4 ioctl queries answer on descriptor fd
Probe(fd) ==
    [chipVersion |-> IF fd = CardFd THEN 21 ELSE 0,
     hasTiling |-> fd = CardFd, hasControlFlow |-> fd = CardFd,
     hasEtc1 |-> fd = CardFd, hasThreadedFs |-> fd = CardFd,
     hasMadvise |-> fd = CardFd]

----------------------------------------------------------------------------
(* instance.c *)

\* the extension loop of vkCreateInstance: the registry indices stored in
\* enabledExtensions before the loop ends, and whether it ended on a miss
RECURSIVE InstanceExtensionLoop(_, _)
InstanceExtensionLoop(names, enabled) ==
    IF names = << >> THEN [enabled |-> enabled, miss |-> FALSE]
    ELSE LET findres == findInstanceExtension(Head(names))
         IN IF findres > -1
            THEN InstanceExtensionLoop(Tail(names), Append(enabled, findres))
            ELSE [enabled |-> enabled, miss |-> TRUE]

\* vkCreateInstance(pCreateInfo, pAllocator, pInstance); names is
\* ppEnabledExtensionNames, allocOk whether the allocator can serve the call
vkCreateInstance(names, allocOk) ==
    LET p == ALLOCATE(heap, allocOk)
        loop == InstanceExtensionLoop(names, << >>)
        fd == openIoctl(controlFd)
        partial == [kind |-> "instance",
                    numEnabledExtensions |-> Len(loop.enabled),
                    enabledExtensions |-> loop.enabled,
                    dev |-> [path |-> "", instance |-> NULL],
                    caps |-> Probe(0)]
        r0 == [Result("vkCreateInstance", "VK_SUCCESS") EXCEPT
                  !.handle = p, !.request = names,
                  !.allocated = IF p = NULL THEN << >> ELSE <<p>>]
    IN IF p = NULL
       THEN /\ last' = [r0 EXCEPT !.ret = "VK_ERROR_OUT_OF_HOST_MEMORY"]
            /\ UNCHANGED <<heap, controlFd, instances, devices>>
       ELSE IF loop.miss
       THEN /\ heap' = [heap EXCEPT ![p] = partial]
            /\ last' = [r0 EXCEPT !.ret = "VK_ERROR_EXTENSION_NOT_PRESENT"]
            /\ UNCHANGED <<controlFd, instances, devices>>
       ELSE /\ heap' = [heap EXCEPT ![p] =
                          [partial EXCEPT
                              !.dev = [path |-> "/dev/dri/card0", instance |-> p],
                              !.caps = Probe(fd)]]
            /\ controlFd' = fd
            /\ instances' = instances \cup {p}
            /\ last' = r0
            /\ UNCHANGED devices

\* vkDestroyInstance(instance, pAllocator)
vkDestroyInstance(instance) ==
    LET f == FreeAll(heap, <<instance>>)
    IN /\ instance \in instances
       /\ heap[instance].kind = "instance"
       /\ \A d \in devices : heap[d].kind = "device" => heap[d].dev # instance
       /\ controlFd' = closeIoctl(controlFd)
       /\ heap' = f.heap
       /\ instances' = instances \ {instance}
       /\ last' = [Result("vkDestroyInstance", "void") EXCEPT
                      !.arg = instance, !.freed = <<instance>>, !.corrupt = f.corrupt]
       /\ UNCHANGED devices

----------------------------------------------------------------------------
(* device.c: vkCreateDevice *)

\* (mutant) the extension check looks at the first requested name only
DeviceExtensionsPresent_FirstOnly(names) ==
    names = << >> \/ findDeviceExtension(names[1]) # -1

\* "check for enabled extensions": no requested name is missing from the
\* device-extension registry
DeviceExtensionsPresent(names) ==
    \A c \in 1..Len(names) : findDeviceExtension(names[c]) # -1

\* (mutant) the feature check looks at the first feature only
FeaturesSupported_FirstOnly(requestedFeatures) ==
    ~(requestedFeatures[0] /\ ~supportedFeatures[0])

\* "check for enabled features": no requested feature is one the hardware lacks
FeaturesSupported(requestedFeatures) ==
    \A c \in 0..(numFeatures - 1) : ~(requestedFeatures[c] /\ ~supportedFeatures[c])

\* the same loop again, after the device is allocated
FeaturesSupportedAgain(requestedFeatures) ==
    \A c \in 0..(numFeatures - 1) : ~(requestedFeatures[c] /\ ~supportedFeatures[c])

\* the registry indices copied into the device's enabledExtensions
RECURSIVE EnabledDeviceExtensions(_)
EnabledDeviceExtensions(names) ==
    IF names = << >> THEN << >>
    ELSE LET findres == findDeviceExtension(Head(names))
         IN IF findres > -1
            THEN <<findres>> \o EnabledDeviceExtensions(Tail(names))
            ELSE EnabledDeviceExtensions(Tail(names))

\* the enabledFeatures the device ends with
EnabledFeatures(features) ==
    IF features.present THEN features.bits ELSE NoFeatures

\* (mutant) the lastEmitSeqno loop stops one record early
NewQueues_OffByOne(queueCount) ==
    [kind |-> "queues",
     elems |-> [d \in 0..(queueCount - 1) |->
                  [lastEmitSeqno |-> IF d < queueCount - 1 THEN 0 ELSE Unwritten,
                   dev |-> Unwritten]]]

\* a fresh array of queueCount _queue records after the lastEmitSeqno loop; the
\* dev member is not written here
NewQueues(queueCount) ==
    [kind |-> "queues",
     elems |-> [d \in 0..(queueCount - 1) |-> [lastEmitSeqno |-> 0, dev |-> Unwritten]]]

\* the loop over pQueueCreateInfos from its k-th entry on: h is the heap, obj
\* the _device so far, failAt the ordinal of the ALLOCATE call of this
\* vkCreateDevice that fails (0: none; 1 is the device itself)
RECURSIVE QueueLoop(_, _, _, _, _, _)
QueueLoop(h, obj, infos, k, failAt, allocated) ==
    IF k > Len(infos)
    THEN [heap |-> h, obj |-> obj, ret |-> "VK_SUCCESS", allocated |-> allocated]
    ELSE LET f == infos[k].queueFamilyIndex
             q == ALLOCATE(h, failAt # k + 1)
             obj1 == [obj EXCEPT !.queues[f] = q]
         IN IF q = NULL
            THEN [heap |-> h, obj |-> obj1, ret |-> "VK_ERROR_OUT_OF_HOST_MEMORY",
                  allocated |-> allocated]
            ELSE QueueLoop([h EXCEPT ![q] = NewQueues(infos[k].queueCount)],
                           [obj1 EXCEPT !.numQueues[f] = infos[k].queueCount],
                           infos, k + 1, failAt, Append(allocated, q))

\* vkCreateDevice(physicalDevice, pCreateInfo, pAllocator, pDevice).  The
\* physical device is the one embedded in instance physicalDevice; garbage is
\* what the fresh _device memory holds in numQueues.
vkCreateDevice(physicalDevice, pCreateInfo, failAt, garbage) ==
    LET names == pCreateInfo.names
        requested == pCreateInfo.features
        r0 == [Result("vkCreateDevice", "VK_SUCCESS") EXCEPT
                  !.arg = physicalDevice, !.request = pCreateInfo]
        p == ALLOCATE(heap, failAt # 1)
        obj0 == [kind |-> "device",
                 dev |-> physicalDevice,
                 numEnabledExtensions |-> Len(EnabledDeviceExtensions(names)),
                 enabledExtensions |-> EnabledDeviceExtensions(names),
                 enabledFeatures |-> EnabledFeatures(requested),
                 queues |-> [c \in 0..(numQueueFamilies - 1) |-> NULL],
                 numQueues |-> garbage]
        loop == QueueLoop([heap EXCEPT ![p] = obj0], obj0, pCreateInfo.queues,
                          1, failAt, <<p>>)
    IN /\ physicalDevice \in instances
       /\ heap[physicalDevice].kind = "instance"
       /\ IF ~DeviceExtensionsPresent(names)
          THEN /\ last' = [r0 EXCEPT !.ret = "VK_ERROR_EXTENSION_NOT_PRESENT"]
               /\ UNCHANGED <<heap, devices>>
          ELSE IF requested.present /\ ~FeaturesSupported(requested.bits)
          THEN /\ last' = [r0 EXCEPT !.ret = "VK_ERROR_FEATURE_NOT_PRESENT"]
               /\ UNCHANGED <<heap, devices>>
          ELSE IF p = NULL
          THEN /\ last' = [r0 EXCEPT !.ret = "VK_ERROR_TOO_MANY_OBJECTS", !.handle = NULL]
               /\ UNCHANGED <<heap, devices>>
          ELSE IF requested.present /\ ~FeaturesSupportedAgain(requested.bits)
          THEN /\ heap' = [heap EXCEPT ![p] = [obj0 EXCEPT !.enabledFeatures = NoFeatures]]
               /\ last' = [r0 EXCEPT !.ret = "VK_ERROR_FEATURE_NOT_PRESENT",
                                     !.handle = p, !.allocated = <<p>>]
               /\ UNCHANGED devices
          ELSE /\ heap' = [loop.heap EXCEPT ![p] = loop.obj]
               /\ last' = [r0 EXCEPT !.ret = loop.ret, !.handle = p,
                                     !.allocated = loop.allocated]
               /\ devices' = IF loop.ret = "VK_SUCCESS" THEN devices \cup {p} ELSE devices
       /\ UNCHANGED <<controlFd, instances>>

----------------------------------------------------------------------------
(* device.c: vkGetDeviceQueue, vkDestroyDevice *)

\* vkGetDeviceQueue(device, queueFamilyIndex, queueIndex, pQueue).  The asserts
\* are the guard; past them, a queues[queueFamilyIndex] that is no array of
\* more than queueIndex records makes the store through *pQueue a wild one.
vkGetDeviceQueue(device, queueFamilyIndex, queueIndex) ==
    LET q == heap[device].queues[queueFamilyIndex]
        valid == /\ q \in Ptrs
                 /\ heap[q].kind = "queues"
                 /\ queueIndex \in DOMAIN heap[q].elems
        r0 == [Result("vkGetDeviceQueue", "void") EXCEPT
                  !.arg = device, !.queue = [array |-> q, index |-> queueIndex]]
    IN /\ device \in devices
       /\ heap[device].kind = "device"
       /\ queueFamilyIndex < numQueueFamilies
       /\ queueIndex < heap[device].numQueues[queueFamilyIndex]
       /\ heap' = IF valid THEN [heap EXCEPT ![q].elems[queueIndex].dev = device]
                  ELSE heap
       /\ last' = [r0 EXCEPT !.corrupt = ~valid]
       /\ UNCHANGED <<controlFd, instances, devices>>

\* a pointer that is no object of the heap
Wild == MaxPtrs + 1

\* the inner loop for family c: numQueues[c] times FREE(dev->queues[d]); a d
\* beyond the queues array reads whatever follows it (beyond[d])
FamilyFrees(obj, c, beyond) ==
    [i \in 1..obj.numQueues[c] |->
        IF i - 1 < numQueueFamilies THEN obj.queues[i - 1] ELSE beyond[i - 1]]

\* the arguments of the FREE calls of vkDestroyDevice, in order
RECURSIVE DestroyFrees(_, _, _, _)
DestroyFrees(device, obj, c, beyond) ==
    IF c >= numQueueFamilies THEN <<device>>
    ELSE FamilyFrees(obj, c, beyond) \o DestroyFrees(device, obj, c + 1, beyond)

\* vkDestroyDevice(device, pAllocator)
vkDestroyDevice(device, beyond) ==
    LET frees == DestroyFrees(device, heap[device], 0, beyond)
        f == FreeAll(heap, frees)
    IN /\ device \in devices
       /\ heap[device].kind = "device"
       /\ heap' = f.heap
       /\ devices' = devices \ {device}
       /\ last' = [Result("vkDestroyDevice", "void") EXCEPT
                      !.arg = device, !.freed = frees, !.corrupt = f.corrupt,
                      !.request = heap[device]]
       /\ UNCHANGED <<controlFd, instances>>

----------------------------------------------------------------------------
(* Count-then-fill enumerations *)

\* the result of an enumeration: what it returns, *pCount afterwards and the
\* records stored at indices 0, 1, ... of the buffer
Enumerated(op, arg, buffer, countIn, ret, count, written) ==
    [Result(op, ret) EXCEPT !.arg = arg, !.buffer = buffer, !.countIn = countIn,
                            !.count = count, !.written = written]

\* vkEnumeratePhysicalDevices(instance, pPhysicalDeviceCount, pPhysicalDevices)
EnumeratePhysicalDevices(instance, buffer, countIn) ==
    LET numGPUs == 1
        arraySize == ToInt32(countIn)
        elementsWritten == min(numGPUs, arraySize)
    IN IF ~buffer
       THEN Enumerated("vkEnumeratePhysicalDevices", instance, buffer, countIn,
                       "VK_SUCCESS", numGPUs, << >>)
       ELSE Enumerated("vkEnumeratePhysicalDevices", instance, buffer, countIn,
                       IF arraySize < numGPUs THEN "VK_INCOMPLETE" ELSE "VK_SUCCESS",
                       ToUint32(elementsWritten),
                       [c \in 1..elementsWritten |-> instance])

\* vkEnumerateInstanceExtensionProperties(pLayerName, pPropertyCount, pProperties)
EnumerateInstanceExtensionProperties(buffer, countIn) ==
    LET arraySize == ToInt32(countIn)
        elementsWritten == min(numInstanceExtensions, arraySize)
    IN IF ~buffer
       THEN Enumerated("vkEnumerateInstanceExtensionProperties", NULL, buffer, countIn,
                       "VK_SUCCESS", numInstanceExtensions, << >>)
       ELSE Enumerated("vkEnumerateInstanceExtensionProperties", NULL, buffer, countIn,
                       IF arraySize < numInstanceExtensions
                       THEN "VK_INCOMPLETE" ELSE "VK_SUCCESS",
                       ToUint32(elementsWritten),
                       [c \in 1..elementsWritten |-> instanceExtensions[c]])

\* vkEnumerateDeviceExtensionProperties(physicalDevice, pLayerName,
\* pPropertyCount, pProperties)
EnumerateDeviceExtensionProperties(physicalDevice, buffer, countIn) ==
    LET arraySize == ToInt32(countIn)
        elementsWritten == min(numDeviceExtensions, arraySize)
    IN IF ~buffer
       THEN Enumerated("vkEnumerateDeviceExtensionProperties", physicalDevice, buffer,
                       countIn, "VK_SUCCESS", numDeviceExtensions, << >>)
       ELSE Enumerated("vkEnumerateDeviceExtensionProperties", physicalDevice, buffer,
                       countIn, "VK_SUCCESS", ToUint32(elementsWritten),
                       [c \in 1..elementsWritten |-> deviceExtensions[c]])

\* vkEnumeratePhysicalDeviceGroups(instance, pPhysicalDeviceGroupCount,
\* pPhysicalDeviceGroupProperties): *pPhysicalDeviceGroupCount is stored to
\* only when there is no buffer
EnumeratePhysicalDeviceGroups(instance, buffer, countIn) ==
    LET group == [physicalDeviceCount |-> 1, physicalDevices |-> <<instance>>,
                  subsetAllocation |-> FALSE]
        c == countIn
    IN IF ~buffer
       THEN Enumerated("vkEnumeratePhysicalDeviceGroups", instance, buffer, countIn,
                       "VK_SUCCESS", 1, << >>)
       ELSE Enumerated("vkEnumeratePhysicalDeviceGroups", instance, buffer, countIn,
                       IF c < 1 THEN "VK_INCOMPLETE" ELSE "VK_SUCCESS",
                       countIn,
                       [i \in 1..c |-> group])

\* capacities for the extension enumerations: those an int holds
IntCapacities == {c \in Capacities : c < TwoTo31}

vkEnumeratePhysicalDevices(instance, buffer, countIn) ==
    /\ instance \in instances
    /\ last' = EnumeratePhysicalDevices(instance, buffer, countIn)
    /\ UNCHANGED <<heap, controlFd, instances, devices>>

vkEnumerateInstanceExtensionProperties(buffer, countIn) ==
    /\ last' = EnumerateInstanceExtensionProperties(buffer, countIn)
    /\ UNCHANGED <<heap, controlFd, instances, devices>>

vkEnumerateDeviceExtensionProperties(physicalDevice, buffer, countIn) ==
    /\ physicalDevice \in instances
    /\ last' = EnumerateDeviceExtensionProperties(physicalDevice, buffer, countIn)
    /\ UNCHANGED <<heap, controlFd, instances, devices>>

vkEnumeratePhysicalDeviceGroups(instance, buffer, countIn) ==
    /\ instance \in instances
    /\ last' = EnumeratePhysicalDeviceGroups(instance, buffer, countIn)
    /\ UNCHANGED <<heap, controlFd, instances, devices>>

----------------------------------------------------------------------------
(* Entry-point resolution *)

\* the null PFN_vkVoidFunction; any other is written as the name of the
\* function it is the address of
NullFn == "NULL"

\* the RETFUNC lines of vkGetInstanceProcAddr, in order
ExportedNames ==
    <<
      "vkCreateInstance", "vkEnumerateInstanceVersion", "vkDestroyInstance",
      "vkEnumeratePhysicalDevices", "vkGetPhysicalDeviceFeatures",
      "vkGetPhysicalDeviceFormatProperties", "vkGetPhysicalDeviceImageFormatProperties",
      "vkGetPhysicalDeviceProperties", "vkGetPhysicalDeviceQueueFamilyProperties",
      "vkGetPhysicalDeviceMemoryProperties", "vkGetInstanceProcAddr",
      "vkGetDeviceProcAddr", "vkCreateDevice", "vkDestroyDevice",
      "vkEnumerateInstanceExtensionProperties", "vkEnumerateDeviceExtensionProperties",
      "vkEnumerateInstanceLayerProperties", "vkEnumerateDeviceLayerProperties",
      "vkGetDeviceQueue", "vkQueueSubmit", "vkQueueWaitIdle", "vkDeviceWaitIdle",
      "vkAllocateMemory", "vkFreeMemory", "vkMapMemory", "vkUnmapMemory",
      "vkFlushMappedMemoryRanges", "vkInvalidateMappedMemoryRanges",
      "vkGetDeviceMemoryCommitment", "vkBindBufferMemory", "vkBindImageMemory",
      "vkGetBufferMemoryRequirements", "vkGetImageMemoryRequirements",
      "vkGetImageSparseMemoryRequirements",
      "vkGetPhysicalDeviceSparseImageFormatProperties", "vkQueueBindSparse",
      "vkCreateFence", "vkDestroyFence", "vkResetFences", "vkGetFenceStatus",
      "vkWaitForFences", "vkCreateSemaphore", "vkDestroySemaphore", "vkCreateEvent",
      "vkDestroyEvent", "vkGetEventStatus", "vkSetEvent", "vkResetEvent",
      "vkCreateQueryPool", "vkDestroyQueryPool", "vkGetQueryPoolResults", "vkCreateBuffer",
      "vkDestroyBuffer", "vkCreateBufferView", "vkDestroyBufferView", "vkCreateImage",
      "vkDestroyImage", "vkGetImageSubresourceLayout", "vkCreateImageView",
      "vkDestroyImageView", "vkCreateShaderModule", "vkDestroyShaderModule",
      "vkCreatePipelineCache", "vkDestroyPipelineCache", "vkGetPipelineCacheData",
      "vkMergePipelineCaches", "vkCreateGraphicsPipelines", "vkCreateComputePipelines",
      "vkDestroyPipeline", "vkCreatePipelineLayout", "vkDestroyPipelineLayout",
      "vkCreateSampler", "vkDestroySampler", "vkCreateDescriptorSetLayout",
      "vkDestroyDescriptorSetLayout", "vkCreateDescriptorPool", "vkDestroyDescriptorPool",
      "vkResetDescriptorPool", "vkAllocateDescriptorSets", "vkFreeDescriptorSets",
      "vkUpdateDescriptorSets", "vkCreateFramebuffer", "vkDestroyFramebuffer",
      "vkCreateRenderPass", "vkDestroyRenderPass", "vkGetRenderAreaGranularity",
      "vkCreateCommandPool", "vkDestroyCommandPool", "vkResetCommandPool",
      "vkAllocateCommandBuffers", "vkFreeCommandBuffers", "vkBeginCommandBuffer",
      "vkEndCommandBuffer", "vkResetCommandBuffer", "vkCmdBindPipeline",
      "vkCmdSetViewport", "vkCmdSetScissor", "vkCmdSetLineWidth", "vkCmdSetDepthBias",
      "vkCmdSetBlendConstants", "vkCmdSetDepthBounds", "vkCmdSetStencilCompareMask",
      "vkCmdSetStencilWriteMask", "vkCmdSetStencilReference", "vkCmdBindDescriptorSets",
      "vkCmdBindIndexBuffer", "vkCmdBindVertexBuffers", "vkCmdDraw", "vkCmdDrawIndexed",
      "vkCmdDrawIndirect", "vkCmdDrawIndexedIndirect", "vkCmdDispatch",
      "vkCmdDispatchIndirect", "vkCmdCopyBuffer", "vkCmdCopyImage", "vkCmdBlitImage",
      "vkCmdCopyBufferToImage", "vkCmdCopyImageToBuffer", "vkCmdUpdateBuffer",
      "vkCmdFillBuffer", "vkCmdClearColorImage", "vkCmdClearDepthStencilImage",
      "vkCmdClearAttachments", "vkCmdResolveImage", "vkCmdSetEvent", "vkCmdResetEvent",
      "vkCmdWaitEvents", "vkCmdPipelineBarrier", "vkCmdBeginQuery", "vkCmdEndQuery",
      "vkCmdResetQueryPool", "vkCmdWriteTimestamp", "vkCmdCopyQueryPoolResults",
      "vkCmdPushConstants", "vkCmdBeginRenderPass", "vkCmdNextSubpass",
      "vkCmdEndRenderPass", "vkCmdExecuteCommands", "vkEnumeratePhysicalDeviceGroups",
      "vkGetPhysicalDeviceFeatures2", "vkGetPhysicalDeviceProperties2",
      "vkGetPhysicalDeviceFormatProperties2", "vkGetPhysicalDeviceImageFormatProperties2",
      "vkGetPhysicalDeviceQueueFamilyProperties2", "vkGetPhysicalDeviceMemoryProperties2",
      "vkGetPhysicalDeviceSparseImageFormatProperties2",
      "vkGetPhysicalDeviceExternalBufferProperties",
      "vkGetPhysicalDeviceExternalFenceProperties",
      "vkGetPhysicalDeviceExternalSemaphoreProperties", "vkBindImageMemory2",
      "vkGetDeviceGroupPeerMemoryFeatures", "vkCmdSetDeviceMask", "vkCmdDispatchBase",
      "vkGetImageMemoryRequirements2", "vkGetBufferMemoryRequirements2",
      "vkGetImageSparseMemoryRequirements2", "vkTrimCommandPool", "vkGetDeviceQueue2",
      "vkCreateSamplerYcbcrConversion", "vkDestroySamplerYcbcrConversion",
      "vkCreateDescriptorUpdateTemplate", "vkDestroyDescriptorUpdateTemplate",
      "vkUpdateDescriptorSetWithTemplate", "vkGetDescriptorSetLayoutSupport",
      "vkBindBufferMemory2"
    >>

\* the names vkGetInstanceProcAddr resolves without an instance
PreInstanceNames ==
    {
      "vkEnumerateInstanceVersion", "vkEnumerateInstanceExtensionProperties",
      "vkEnumerateInstanceLayerProperties", "vkCreateInstance"
    }

\* the names vkGetDeviceProcAddr answers with 0
DeviceBlockedNames ==
    {
      "vkDestroyInstance", "vkEnumeratePhysicalDevices", "vkGetPhysicalDeviceFeatures",
      "vkGetPhysicalDeviceFormatProperties", "vkGetPhysicalDeviceImageFormatProperties",
      "vkGetPhysicalDeviceProperties", "vkGetPhysicalDeviceQueueFamilyProperties",
      "vkGetPhysicalDeviceMemoryProperties", "vkCreateDevice",
      "vkEnumerateDeviceExtensionProperties", "vkEnumerateDeviceLayerProperties",
      "vkGetPhysicalDeviceSparseImageFormatProperties", "vkEnumeratePhysicalDeviceGroups",
      "vkGetPhysicalDeviceFeatures2", "vkGetPhysicalDeviceProperties2",
      "vkGetPhysicalDeviceFormatProperties2", "vkGetPhysicalDeviceImageFormatProperties2",
      "vkGetPhysicalDeviceQueueFamilyProperties2", "vkGetPhysicalDeviceMemoryProperties2",
      "vkGetPhysicalDeviceSparseImageFormatProperties2",
      "vkGetPhysicalDeviceExternalBufferProperties",
      "vkGetPhysicalDeviceExternalFenceProperties",
      "vkGetPhysicalDeviceExternalSemaphoreProperties"
    }

\* names the driver does not export
UnexportedNames == {"vkCreateSwapchainKHR", "vkNotAnEntryPoint"}

Names == {ExportedNames[i] : i \in 1..Len(ExportedNames)} \cup UnexportedNames

\* the first RETFUNC line that matches pName returns that function
RetFunc(pName) ==
    IF \E i \in 1..Len(ExportedNames) : ExportedNames[i] = pName THEN pName ELSE NullFn

\* (mutant) the resolver ignores whether there is an instance
GetInstanceProcAddr_NoGate(instance, pName) == RetFunc(pName)

GetInstanceProcAddr(instance, pName) ==
    IF instance = NULL /\ ~(pName \in PreInstanceNames) THEN NullFn ELSE RetFunc(pName)

GetDeviceProcAddr(h, device, pName) ==
    IF pName \in DeviceBlockedNames THEN NullFn
    ELSE GetInstanceProcAddr(h[h[device].dev].dev.instance, pName)

vkGetInstanceProcAddr(instance, pName) ==
    /\ instance \in instances \cup {NULL}
    /\ last' = [Result("vkGetInstanceProcAddr", GetInstanceProcAddr(instance, pName))
                   EXCEPT !.arg = instance, !.name = pName]
    /\ UNCHANGED <<heap, controlFd, instances, devices>>

vkGetDeviceProcAddr(device, pName) ==
    /\ device \in devices
    /\ heap[device].kind = "device"
    /\ heap[device].dev \in instances
    /\ heap[heap[device].dev].kind = "instance"
    /\ last' = [Result("vkGetDeviceProcAddr", GetDeviceProcAddr(heap, device, pName))
                   EXCEPT !.arg = device, !.name = pName]
    /\ UNCHANGED <<heap, controlFd, instances, devices>>

----------------------------------------------------------------------------
(* What the application may pass *)

ExtensionNames(table) ==
    {table[i].extensionName : i \in 1..Len(table)} \cup {UnknownExtension}

InstanceRequests == SeqsUpTo(ExtensionNames(instanceExtensions), MaxExtNames)
DeviceExtensionRequests == SeqsUpTo(ExtensionNames(deviceExtensions), MaxExtNames)

\* pEnabledFeatures: absent, or any feature set
FeatureRequests ==
    {[present |-> FALSE, bits |-> NoFeatures]}
        \cup {[present |-> TRUE, bits |-> b] : b \in FeatureSets}

QueueCreateInfos ==
    [queueFamilyIndex : 0..(numQueueFamilies - 1), queueCount : 1..MaxQueueCount]

\* pQueueCreateInfos: any list of requests on distinct families (two requests
\* on one family are not valid usage)
QueueRequests ==
    {qs \in SeqsUpTo(QueueCreateInfos, numQueueFamilies) :
        \A i, j \in 1..Len(qs) : i # j => qs[i].queueFamilyIndex # qs[j].queueFamilyIndex}

DeviceRequests(Exts, Feats, Queues) == [names : Exts, features : Feats, queues : Queues]

\* what fresh memory may hold where the device keeps numQueues
Garbage == [0..(numQueueFamilies - 1) -> 0..MaxQueueCount]

\* what vkDestroyDevice may find past the end of the queues array
Beyond == [numQueueFamilies..(MaxQueueCount - 1) -> {NULL, Wild} \cup Ptrs]

\* the same for a device whose numQueues reach n
BeyondUpTo(n) == [numQueueFamilies..(n - 1) -> {NULL, Wild} \cup Ptrs]

----------------------------------------------------------------------------
(* The specifications *)

Init ==
    /\ heap = [p \in Ptrs |-> NoObject]
    /\ controlFd = 0
    /\ instances = {}
    /\ devices = {}
    /\ last = Result("none", "void")

\* The application holds fewer than limit instances and creates one more.
CreateInstance(Requests, limit) ==
    /\ Cardinality(instances) < limit
    /\ \E names \in Requests, allocOk \in BOOLEAN : vkCreateInstance(names, allocOk)

DestroyInstance == \E instance \in instances : vkDestroyInstance(instance)

\* the families the queue loop stores a count for when the failAt-th ALLOCATE fails
CountedFamilies(infos, failAt) ==
    {infos[k].queueFamilyIndex : k \in {n \in 1..Len(infos) : failAt = 0 \/ n + 1 < failAt}}

\* The application holds fewer than limit devices and creates one more.  What
\* the fresh memory holds matters only where the call leaves it, so it is
\* taken as 0 where the call stores a count.
CreateDevice(Requests, FailAts, Garbages, limit) ==
    /\ Cardinality(devices) < limit
    /\ \E physicalDevice \in instances, pCreateInfo \in Requests,
          failAt \in FailAts, garbage \in Garbages :
        /\ failAt <= Len(pCreateInfo.queues) + 1
        /\ \A f \in CountedFamilies(pCreateInfo.queues, failAt) : garbage[f] = 0
        /\ vkCreateDevice(physicalDevice, pCreateInfo, failAt, garbage)

GetDeviceQueue ==
    \E device \in devices, queueFamilyIndex \in 0..(numQueueFamilies - 1),
       queueIndex \in 0..(MaxQueueCount - 1) :
        vkGetDeviceQueue(device, queueFamilyIndex, queueIndex)

DestroyDevice == \E device \in devices, beyond \in Beyond : vkDestroyDevice(device, beyond)

\* the same where a family may hold more queues than there are families
DestroyDeviceReading(Beyonds) ==
    \E device \in devices, beyond \in Beyonds : vkDestroyDevice(device, beyond)

EnumeratePhysicalDevicesCall ==
    \E instance \in instances, buffer \in BOOLEAN, countIn \in Capacities :
        vkEnumeratePhysicalDevices(instance, buffer, countIn)

EnumerateInstanceExtensionsCall ==
    \E buffer \in BOOLEAN, countIn \in IntCapacities :
        vkEnumerateInstanceExtensionProperties(buffer, countIn)

EnumerateDeviceExtensionsCall ==
    \E physicalDevice \in instances, buffer \in BOOLEAN, countIn \in IntCapacities :
        vkEnumerateDeviceExtensionProperties(physicalDevice, buffer, countIn)

EnumeratePhysicalDeviceGroupsCall ==
    \E instance \in instances, buffer \in BOOLEAN, countIn \in 0..MaxCap :
        vkEnumeratePhysicalDeviceGroups(instance, buffer, countIn)

GetInstanceProcAddrCall ==
    \E instance \in instances \cup {NULL}, pName \in Names :
        vkGetInstanceProcAddr(instance, pName)

GetDeviceProcAddrCall ==
    \E device \in devices, pName \in Names : vkGetDeviceProcAddr(device, pName)

\* an application that asks for no extension, no feature and no queue
Plain == {<< >>}
NoFeatureRequest == {[present |-> FALSE, bits |-> NoFeatures]}
ZeroedMemory == {[c \in 0..(numQueueFamilies - 1) |-> 0]}
AnyAllocation == 0..(numQueueFamilies + 1)

\* every call with every input, by an application that holds any number of
\* objects
Next ==
    \/ CreateInstance(InstanceRequests, MaxPtrs)
    \/ DestroyInstance
    \/ CreateDevice(DeviceRequests(DeviceExtensionRequests, FeatureRequests, QueueRequests),
                    AnyAllocation, Garbage, MaxPtrs)
    \/ GetDeviceQueue
    \/ DestroyDevice
    \/ EnumeratePhysicalDevicesCall
    \/ EnumerateInstanceExtensionsCall
    \/ EnumerateDeviceExtensionsCall
    \/ EnumeratePhysicalDeviceGroupsCall
    \/ GetInstanceProcAddrCall
    \/ GetDeviceProcAddrCall

Spec == Init /\ [][Next]_vars

\* instance creation and destruction, with every extension request, by an
\* application that holds at most two instances
NextInstance ==
    \/ CreateInstance(InstanceRequests, 2)
    \/ DestroyInstance

SpecInstance == Init /\ [][NextInstance]_vars

\* device negotiation: one instance, at most one device, every extension and
\* feature request, with no queue or one queue of family 0; only the device
\* allocation may fail
NegotiationRequests ==
    DeviceRequests(DeviceExtensionRequests, FeatureRequests,
                   {<< >>, <<[queueFamilyIndex |-> 0, queueCount |-> 1]>>})

NextNegotiation ==
    \/ CreateInstance(Plain, 1)
    \/ CreateDevice(NegotiationRequests, {0, 1}, ZeroedMemory, 1)
    \/ DestroyDevice
    \/ DestroyInstance

SpecNegotiation == Init /\ [][NextNegotiation]_vars

\* queues: one instance, at most one device, every queue request, any content
\* of fresh memory; an allocation fails when the heap is full
NextQueues ==
    \/ CreateInstance(Plain, 1)
    \/ CreateDevice(DeviceRequests(Plain, NoFeatureRequest, QueueRequests),
                    {0}, Garbage, 1)
    \/ GetDeviceQueue
    \/ DestroyDevice
    \/ DestroyInstance

SpecQueues == Init /\ [][NextQueues]_vars

\* the enumerations, on at most two instances
NextEnumerate ==
    \/ CreateInstance(Plain, 2)
    \/ DestroyInstance
    \/ EnumeratePhysicalDevicesCall
    \/ EnumerateInstanceExtensionsCall
    \/ EnumerateDeviceExtensionsCall
    \/ EnumeratePhysicalDeviceGroupsCall

SpecEnumerate == Init /\ [][NextEnumerate]_vars

\* the two resolvers, on one instance and at most one device
NextResolve ==
    \/ CreateInstance(Plain, 1)
    \/ CreateDevice(DeviceRequests(Plain, NoFeatureRequest, Plain), {0}, ZeroedMemory, 1)
    \/ DestroyDevice
    \/ DestroyInstance
    \/ GetInstanceProcAddrCall
    \/ GetDeviceProcAddrCall

SpecResolve == Init /\ [][NextResolve]_vars

\* queue ownership: one instance, at most two devices, each with one queue of
\* one family, or with one queue more on family 0 than there are families;
\* fresh memory reads zero and no allocation fails but for a full heap
LongFamily == numQueueFamilies + 1

OwnershipQueues ==
    {<<[queueFamilyIndex |-> f, queueCount |-> 1]>> : f \in 0..(numQueueFamilies - 1)}
        \cup {<<[queueFamilyIndex |-> 0, queueCount |-> LongFamily]>>}

NextOwnership ==
    \/ CreateInstance(Plain, 1)
    \/ CreateDevice(DeviceRequests(Plain, NoFeatureRequest, OwnershipQueues),
                    {0}, ZeroedMemory, 2)
    \/ GetDeviceQueue
    \/ DestroyDeviceReading(BeyondUpTo(LongFamily))
    \/ DestroyInstance

SpecOwnership == Init /\ [][NextOwnership]_vars

\* allocation failure: one instance, at most one device, every queue request,
\* any one ALLOCATE call of a vkCreateDevice failing; fresh memory reads zero
NextAllocation ==
    \/ CreateInstance(Plain, 1)
    \/ CreateDevice(DeviceRequests(Plain, NoFeatureRequest, QueueRequests),
                    AnyAllocation, ZeroedMemory, 1)
    \/ DestroyDevice
    \/ DestroyInstance

SpecAllocation == Init /\ [][NextAllocation]_vars

----------------------------------------------------------------------------
(* Properties *)

KnownDeviceExtensions == {"VK_KHR_swapchain", "VK_KHR_maintenance1"}
KnownInstanceExtensions == {"VK_KHR_surface", "VK_KHR_display"}
HasUnknown(names, known) == \E c \in 1..Len(names) : names[c] \notin known
Occurrences(seq, x) == Cardinality({i \in 1..Len(seq) : seq[i] = x})
Min(a, b) == IF a <= b THEN a ELSE b
Prefix(seq, n) == [i \in 1..n |-> seq[i]]

\* C1: a vkCreateDevice request that holds an extension name the device
\* registry does not know returns VK_ERROR_EXTENSION_NOT_PRESENT, allocates
\* nothing and leaves *pDevice unwritten, whatever else it asks for.
C1_UnknownDeviceExtensionCreatesNothing ==
    (last.op = "vkCreateDevice" /\ HasUnknown(last.request.names, KnownDeviceExtensions))
        => /\ last.ret = "VK_ERROR_EXTENSION_NOT_PRESENT"
           /\ last.allocated = << >>
           /\ last.handle = Unwritten
           /\ \A p \in Ptrs : heap[p].kind \notin {"device", "queues"}

\* C1 happens: a known name, then an unknown one, with a feature set that
\* asks for an unsupported feature, was refused for the extension.
C1_Witness ==
    /\ last.op = "vkCreateDevice"
    /\ last.request.names = <<"VK_KHR_swapchain", UnknownExtension>>
    /\ last.request.features.present
    /\ last.request.features.bits[1]
    /\ last.request.queues # << >>
    /\ last.ret = "VK_ERROR_EXTENSION_NOT_PRESENT"

\* C2: a vkCreateInstance request that holds an extension name the instance
\* registry does not know returns VK_ERROR_EXTENSION_NOT_PRESENT (the allocator
\* having memory), leaves no Instance allocation outstanding and leaves
\* *pInstance unset.
C2_UnknownInstanceExtensionCreatesNothing ==
    (/\ last.op = "vkCreateInstance"
     /\ HasUnknown(last.request, KnownInstanceExtensions)
     /\ last.ret # "VK_ERROR_OUT_OF_HOST_MEMORY")
        => /\ last.ret = "VK_ERROR_EXTENSION_NOT_PRESENT"
           /\ last.allocated = << >>
           /\ last.handle = Unwritten
           /\ \A p \in Ptrs : heap[p].kind = "instance" => p \in instances

\* C3: vkDestroyDevice frees each queue array of the device once and the
\* device once, frees nothing else, and leaves none of them allocated.
C3_DestroyFreesExactlyTheDevice ==
    last.op = "vkDestroyDevice"
        => LET obj == last.request
               owned == ({obj.queues[c] : c \in 0..(numQueueFamilies - 1)} \ {NULL})
                            \cup {last.arg}
           IN /\ ~last.corrupt
              /\ \A p \in owned : Occurrences(last.freed, p) = 1
              /\ \A i \in 1..Len(last.freed) : last.freed[i] \in owned \cup {NULL}
              /\ \A p \in owned : heap[p].kind = "free"

\* C4: after a successful vkCreateDevice every requested family holds an
\* array of exactly queueCount queues, numQueues says so, and every queue's
\* lastEmitSeqno is 0.
C4_RequestedQueuesCreated ==
    (last.op = "vkCreateDevice" /\ last.ret = "VK_SUCCESS")
        => \A k \in 1..Len(last.request.queues) :
              LET f == last.request.queues[k].queueFamilyIndex
                  n == last.request.queues[k].queueCount
                  dev == heap[last.handle]
              IN /\ dev.kind = "device"
                 /\ dev.numQueues[f] = n
                 /\ dev.queues[f] \in Ptrs
                 /\ heap[dev.queues[f]].kind = "queues"
                 /\ DOMAIN heap[dev.queues[f]].elems = 0..(n - 1)
                 /\ \A d \in 0..(n - 1) : heap[dev.queues[f]].elems[d].lastEmitSeqno = 0

\* C4 happens: two queues of family 0 and one of family 1 were created.
C4_Witness ==
    /\ last.op = "vkCreateDevice"
    /\ last.ret = "VK_SUCCESS"
    /\ last.request.queues = << [queueFamilyIndex |-> 0, queueCount |-> 2],
                                [queueFamilyIndex |-> 1, queueCount |-> 1] >>
    /\ heap[last.handle].numQueues = [c \in 0..1 |-> IF c = 0 THEN 2 ELSE 1]

\* C5: vkGetDeviceProcAddr answers null for "vkCreateInstance".
C5_DeviceResolverHidesCreateInstance ==
    (last.op = "vkGetDeviceProcAddr" /\ last.name = "vkCreateInstance")
        => last.ret = NullFn

\* C6: without an instance vkGetInstanceProcAddr resolves exactly the four
\* pre-instance names; with one, a name outside the exported table is null.
C6_InstanceResolverGate ==
    last.op = "vkGetInstanceProcAddr"
        => /\ last.arg = NULL
                => (last.ret # NullFn <=>
                        last.name \in {"vkEnumerateInstanceVersion",
                                       "vkEnumerateInstanceExtensionProperties",
                                       "vkEnumerateInstanceLayerProperties",
                                       "vkCreateInstance"})
           /\ last.ret # NullFn => last.ret = last.name
           /\ (last.arg # NULL /\ last.name \in UnexportedNames) => last.ret = NullFn

\* C6 happens: a name that resolves with an instance was refused without one.
C6_Witness ==
    /\ last.op = "vkGetInstanceProcAddr"
    /\ last.arg = NULL
    /\ last.name = "vkDestroyInstance"
    /\ last.ret = NullFn
    /\ GetInstanceProcAddr(1, "vkDestroyInstance") = "vkDestroyInstance"

\* C7: vkEnumeratePhysicalDevices reports one device: count 1 and success
\* without a buffer; nothing, count 0 and VK_INCOMPLETE with capacity 0; the
\* instance's physical device at index 0, count 1 and success with capacity >= 1.
C7_OnePhysicalDevice ==
    last.op = "vkEnumeratePhysicalDevices"
        => /\ ~last.buffer => (last.count = 1 /\ last.ret = "VK_SUCCESS")
           /\ (last.buffer /\ last.countIn = 0)
                => (last.written = << >> /\ last.count = 0 /\ last.ret = "VK_INCOMPLETE")
           /\ (last.buffer /\ last.countIn >= 1)
                => (last.written = <<last.arg>> /\ last.count = 1
                        /\ last.ret = "VK_SUCCESS")

\* C8: both extension enumerations, with registry size T and capacity C: count T
\* and success without a buffer; with one, the first min(T, C) registry
\* entries, count min(T, C), and VK_INCOMPLETE iff C < T.
C8_ExtensionEnumeration ==
    \A e \in {[op |-> "vkEnumerateInstanceExtensionProperties", table |-> instanceExtensions],
              [op |-> "vkEnumerateDeviceExtensionProperties", table |-> deviceExtensions]} :
        last.op = e.op
            => LET T == Len(e.table)
                   C == last.countIn
               IN /\ ~last.buffer => (last.count = T /\ last.ret = "VK_SUCCESS")
                  /\ last.buffer
                        => /\ last.written = Prefix(e.table, Min(T, C))
                           /\ last.count = Min(T, C)
                           /\ last.ret = IF C < T THEN "VK_INCOMPLETE" ELSE "VK_SUCCESS"

\* C9: vkEnumeratePhysicalDeviceGroups reports one group: with a buffer of
\* capacity C it writes min(1, C) records, sets the count to min(1, C) and
\* returns VK_INCOMPLETE iff C < 1; without one, count 1 and success.
C9_OnePhysicalDeviceGroup ==
    last.op = "vkEnumeratePhysicalDeviceGroups"
        => LET C == last.countIn
               group == [physicalDeviceCount |-> 1, physicalDevices |-> <<last.arg>>,
                         subsetAllocation |-> FALSE]
           IN /\ ~last.buffer => (last.count = 1 /\ last.ret = "VK_SUCCESS")
              /\ last.buffer
                    => /\ last.written = [i \in 1..Min(1, C) |-> group]
                       /\ last.count = Min(1, C)
                       /\ last.ret = IF C < 1 THEN "VK_INCOMPLETE" ELSE "VK_SUCCESS"

\* C10: with every extension known, a feature set that asks for a feature
\* the hardware lacks is refused with VK_ERROR_FEATURE_NOT_PRESENT and no
\* allocation; otherwise the device created has the requested features
\* enabled, or none when no feature set was given.
C10_FeatureGating ==
    (last.op = "vkCreateDevice" /\ ~HasUnknown(last.request.names, KnownDeviceExtensions))
        => LET req == last.request.features
               lacking == \E c \in 0..(numFeatures - 1) : req.bits[c] /\ c % 3 = 1
           IN /\ (req.present /\ lacking)
                    => /\ last.ret = "VK_ERROR_FEATURE_NOT_PRESENT"
                       /\ last.allocated = << >>
                       /\ last.handle = Unwritten
              /\ (req.present /\ ~lacking /\ last.handle \in Ptrs)
                    => heap[last.handle].enabledFeatures = req.bits
              /\ (~req.present /\ last.handle \in Ptrs)
                    => heap[last.handle].enabledFeatures = [c \in 0..(numFeatures - 1) |-> FALSE]
              /\ ~(req.present /\ lacking) => last.ret # "VK_ERROR_FEATURE_NOT_PRESENT"

\* C10 happens: a supported and an unsupported feature were requested
\* together, with known extensions, and the request was refused.
C10_Witness ==
    /\ last.op = "vkCreateDevice"
    /\ last.request.names = <<"VK_KHR_maintenance1">>
    /\ last.request.features.present
    /\ last.request.features.bits[0]
    /\ last.request.features.bits[1]
    /\ last.ret = "VK_ERROR_FEATURE_NOT_PRESENT"

\* the descriptor the driver issues the ioctls of instance on: the process-wide
\* controlFd, the _instance keeping none of its own
HandleOf(instance) == controlFd

\* C11: after any sequence of vkCreateInstance and vkDestroyInstance calls the
\* hardware file handle of every instance still alive is open: neither the
\* creation of a second instance nor the destruction of another one closes it.
C11_LiveInstanceHandleOpen ==
    \A instance \in instances :
        heap[instance].kind = "instance" => HandleOf(instance) # 0

RequestedFamilies(infos) == {infos[k].queueFamilyIndex : k \in 1..Len(infos)}

\* C13: after a successful vkCreateDevice every family no request targets has
\* no queues: its queue array is null and its queue count is zero.
C13_UnrequestedFamiliesHaveNoQueues ==
    (last.op = "vkCreateDevice" /\ last.ret = "VK_SUCCESS")
        => \A f \in (0..(numQueueFamilies - 1)) \ RequestedFamilies(last.request.queues) :
              /\ heap[last.handle].queues[f] = NULL
              /\ heap[last.handle].numQueues[f] = 0

\* C14: a vkCreateDevice that fails on an allocation, of the device
\* (VK_ERROR_TOO_MANY_OBJECTS) or of a queue array
\* (VK_ERROR_OUT_OF_HOST_MEMORY), leaves nothing it allocated outstanding.
C14_FailedCreateReleasesItsAllocations ==
    (/\ last.op = "vkCreateDevice"
     /\ last.ret \in {"VK_ERROR_TOO_MANY_OBJECTS", "VK_ERROR_OUT_OF_HOST_MEMORY"})
        => \A i \in 1..Len(last.allocated) : heap[last.allocated[i]].kind = "free"

====
